---- MODULE Spec2Model ----
(***************************************************************************)
(* Model of src/src/midi.rs: the MIDI status classifier (data_bytes), the  *)
(* message accessors, the seven builders, from_bytes and the two decoder   *)
(* entry points next_message_given_status / next_message reading from a    *)
(* byte source (std::io::Reader).                                          *)
(***************************************************************************)
EXTENDS Integers, Sequences, FiniteSets, TLC

VARIABLES buf, pos, reads, cause, sent, got, call, result

vars == <<buf, pos, reads, cause, sent, got, call, result>>

(* ------------------------------ bounds --------------------------------- *)
\* bytes the stream of the streaming specification may hold
MaxBuf == 5
\* bytes that may follow the status byte on a raw stream
MaxRest == 2
\* failed reads a reader may serve (a failing read can be repeated for ever)
MaxFail == 1
\* longest vector handed to from_bytes
MaxFromLen == 2

\* builder inputs: the channels of the contract, data values sampled in 0..127
Channels == 0..15
DataVals == {0, 5, 60, 100, 127}
\* channels and data values used where several messages share one stream
StreamChannels == {0, 9, 15}
StreamData == {0, 127}
\* raw byte an external writer may put between messages: a data byte, which
\* running status would take as the start of another message
StreamRaw == {60}
\* bytes that may follow the status byte on a raw stream: a data byte, a
\* voice status and SysExEnd
RestVals == {60, 144, 247}
\* bytes handed to from_bytes
FromVals == {0, 144, 240}
\* error kinds a Reader can report
IoErrorKinds == {"EndOfFile", "TimedOut"}

(* --------------------------- u8 arithmetic ----------------------------- *)
RECURSIVE BitAnd(_, _, _)
BitAnd(a, b, n) ==
    IF n = 0 THEN 0
    ELSE ((a % 2) * (b % 2)) + 2 * BitAnd(a \div 2, b \div 2, n - 1)

RECURSIVE BitOr(_, _, _)
BitOr(a, b, n) ==
    IF n = 0 THEN 0
    ELSE (IF (a % 2) + (b % 2) > 0 THEN 1 ELSE 0)
         + 2 * BitOr(a \div 2, b \div 2, n - 1)

STATUS_MASK == 240
CHANNEL_MASK == 15

(* ------------------------------ Status --------------------------------- *)
\* enum Status with its discriminants
Status ==
    [ NoteOff |-> 128, NoteOn |-> 144, PolyphonicAftertouch |-> 160,
      ControlChange |-> 176, ProgramChange |-> 192, ChannelAftertouch |-> 208,
      PitchBend |-> 224,
      SysExStart |-> 240, MIDITimeCodeQtrFrame |-> 241,
      SongPositionPointer |-> 242, SongSelect |-> 243, TuneRequest |-> 246,
      SysExEnd |-> 247, TimingClock |-> 248, Start |-> 250, Continue |-> 251,
      Stop |-> 252, ActiveSensing |-> 254, SystemReset |-> 255 ]

\* #[derive(FromPrimitive)]: the variant whose discriminant is n, else None
from_u8(n) ==
    IF \E s \in DOMAIN Status : Status[s] = n
    THEN CHOOSE s \in DOMAIN Status : Status[s] = n
    ELSE "None"

(* --------------------------- MidiMessage -------------------------------- *)
\* fn status(&self): unwrap() panics on None; data[0] panics on an empty Vec
status(m) ==
    IF Len(m.data) = 0 THEN "panic"
    ELSE LET s == from_u8(BitAnd(m.data[1], STATUS_MASK, 8))
         IN  IF s = "None" THEN "panic" ELSE s

channel_no_offset(m) ==
    IF Len(m.data) = 0 THEN "panic"
    ELSE BitAnd(m.data[1], CHANNEL_MASK, 8)

\* fn channel(&self) -> u8
channel(m) ==
    IF Len(m.data) = 0 THEN "panic"
    ELSE (BitAnd(m.data[1], CHANNEL_MASK, 8) + 1) % 256

\* fn data(&self, index): 0-based index into the Vec
data(m, index) ==
    IF index < Len(m.data) THEN m.data[index + 1] ELSE "panic"

make_status_and(st, ch) == BitAnd(Status[st], ch, 8)

\* fn make_status(status, channel) -> u8
make_status(st, ch) == BitOr(Status[st], ch, 8)

\* fn from_bytes(bytes): no validation
from_bytes(bytes) == [data |-> bytes]

data_bytes_pitch1(st) ==
    LET stat == from_u8(BitAnd(st, STATUS_MASK, 8))
    IN  CASE stat \in {"NoteOff", "NoteOn", "PolyphonicAftertouch",
                       "ControlChange", "SongPositionPointer"} -> 2
          [] stat = "SysExStart" -> -2
          [] stat \in {"ProgramChange", "ChannelAftertouch", "PitchBend",
                       "MIDITimeCodeQtrFrame", "SongSelect"} -> 1
          [] stat \in {"TuneRequest", "SysExEnd", "TimingClock", "Start",
                       "Continue", "Stop", "ActiveSensing", "SystemReset"} -> 0
          [] OTHER -> -3

data_bytes_sysex_invalid(st) ==
    LET stat == from_u8(BitAnd(st, STATUS_MASK, 8))
    IN  CASE stat \in {"NoteOff", "NoteOn", "PolyphonicAftertouch",
                       "ControlChange", "PitchBend", "SongPositionPointer"} -> 2
          [] stat \in {"ProgramChange", "ChannelAftertouch",
                       "MIDITimeCodeQtrFrame", "SongSelect"} -> 1
          [] stat \in {"TuneRequest", "SysExEnd", "TimingClock", "Start",
                       "Continue", "Stop", "ActiveSensing", "SystemReset"} -> 0
          [] OTHER -> -3

data_bytes_program2(st) ==
    LET stat == from_u8(BitAnd(st, STATUS_MASK, 8))
    IN  CASE stat \in {"NoteOff", "NoteOn", "PolyphonicAftertouch",
                       "ControlChange", "PitchBend", "ProgramChange",
                       "SongPositionPointer"} -> 2
          [] stat = "SysExStart" -> -2
          [] stat \in {"ChannelAftertouch",
                       "MIDITimeCodeQtrFrame", "SongSelect"} -> 1
          [] stat \in {"TuneRequest", "SysExEnd", "TimingClock", "Start",
                       "Continue", "Stop", "ActiveSensing", "SystemReset"} -> 0
          [] OTHER -> -3

\* fn data_bytes(status: u8) -> isize
data_bytes(st) ==
    LET stat == from_u8(BitAnd(st, STATUS_MASK, 8))
    IN  CASE stat \in {"NoteOff", "NoteOn", "PolyphonicAftertouch",
                       "ControlChange", "PitchBend", "SongPositionPointer"} -> 2
          [] stat = "SysExStart" -> -2
          [] stat \in {"ProgramChange", "ChannelAftertouch",
                       "MIDITimeCodeQtrFrame", "SongSelect"} -> 1
          [] stat \in {"TuneRequest", "SysExEnd", "TimingClock", "Start",
                       "Continue", "Stop", "ActiveSensing", "SystemReset"} -> 0
          [] OTHER -> -3

(* ------------------------------ Reader ---------------------------------- *)
\* a reader: the bytes it holds, how many were handed out, how many
\* read_byte calls it served, and the error it reports when it has no byte
Reader(b, p, n, c) == [buf |-> b, pos |-> p, reads |-> n, cause |-> c]

\* reader.read_byte(): the next byte, or the reader's IoError
read_byte(r) ==
    IF r.pos < Len(r.buf)
    THEN [ok |-> TRUE, byte |-> r.buf[r.pos + 1],
          rd |-> [r EXCEPT !.pos = @ + 1, !.reads = @ + 1]]
    ELSE [ok |-> FALSE, err |-> r.cause,
          rd |-> [r EXCEPT !.reads = @ + 1]]

(* ----------------------------- MidiError -------------------------------- *)
InvalidStatus(b) == [tag |-> "InvalidStatus", byte |-> b]
OtherErr(s) == [tag |-> "OtherErr", msg |-> s]
\* impl FromError<IoError> for MidiError, applied by try!
from_error(err) == [tag |-> "IoError", err |-> err]
Ok(m) == [tag |-> "Ok", data |-> m.data]

(* ------------------------------ decoder --------------------------------- *)
\* fn next_message_given_status(stat, reader): the returned value and the
\* reader as the call leaves it
next_message_given_status(stat, r) ==
    LET n  == data_bytes(stat)
        r1 == read_byte(r)
        r2 == read_byte(r1.rd)
    IN  CASE n = 0 -> [val |-> Ok([data |-> <<stat>>]), rd |-> r]
          [] n = 1 ->
               IF r1.ok
               THEN [val |-> Ok([data |-> <<stat, r1.byte>>]), rd |-> r1.rd]
               ELSE [val |-> from_error(r1.err), rd |-> r1.rd]
          [] n = 2 ->
               IF ~r1.ok
               THEN [val |-> from_error(r1.err), rd |-> r1.rd]
               ELSE IF ~r2.ok
               THEN [val |-> from_error(r2.err), rd |-> r2.rd]
               ELSE [val |-> Ok([data |-> <<stat, r1.byte, r2.byte>>]),
                     rd |-> r2.rd]
          [] n = -1 ->
               [val |-> OtherErr("Don't handle variable sized yet"), rd |-> r]
          [] n = -2 ->
               [val |-> OtherErr("Don't handle sysex yet"), rd |-> r]
          [] OTHER -> [val |-> InvalidStatus(stat), rd |-> r]

next_message_masked(r) ==
    LET r0 == read_byte(r)
    IN  IF ~r0.ok
        THEN [val |-> from_error(r0.err), rd |-> r0.rd]
        ELSE next_message_given_status(BitAnd(r0.byte, STATUS_MASK, 8), r0.rd)

\* fn next_message(reader)
next_message(r) ==
    LET r0 == read_byte(r)
    IN  IF ~r0.ok
        THEN [val |-> from_error(r0.err), rd |-> r0.rd]
        ELSE next_message_given_status(r0.byte, r0.rd)

(* ------------------------------ builders -------------------------------- *)
note_on(note, velocity, ch) ==
    [data |-> <<make_status("NoteOn", ch), note, velocity>>]
note_off(note, velocity, ch) ==
    [data |-> <<make_status("NoteOff", ch), note, velocity>>]
polyphonic_aftertouch(note, pressure, ch) ==
    [data |-> <<make_status("PolyphonicAftertouch", ch), note, pressure>>]
control_change(controler, d, ch) ==
    [data |-> <<make_status("ControlChange", ch), controler, d>>]
program_change(program, ch) ==
    [data |-> <<make_status("ProgramChange", ch), program>>]
channel_aftertouch(pressure, ch) ==
    [data |-> <<make_status("ChannelAftertouch", ch), pressure>>]
pitch_bend(lsb, msb, ch) ==
    [data |-> <<make_status("PitchBend", ch), lsb, msb>>]

(* ------------------------------- state ---------------------------------- *)
\* buf, pos, reads, cause : the byte source (see Reader)
\* sent   : what was written to the stream, in order: a builder's buffer
\*          (built = TRUE) or one raw byte of an external writer
\* got    : the outcome of every next_message call, in order, with the
\*          reader's position before and after it and the number of bytes
\*          the stream held when it was made
\* call   : the last call made, with the reader as it found it
\* result : the value the last call returned
TheReader == Reader(buf, pos, reads, cause)
Remaining == SubSeq(buf, pos + 1, Len(buf))

Init ==
    /\ buf = <<>>
    /\ pos = 0
    /\ reads = 0
    /\ cause \in IoErrorKinds
    /\ sent = <<>>
    /\ got = <<>>
    /\ call = [fn |-> "none"]
    /\ result = [tag |-> "None"]

\* a builder returns m; its buffer goes to the byte sink feeding the stream
Built(fn, args, m) ==
    /\ call' = [fn |-> fn, args |-> args, start |-> pos, reads0 |-> reads,
                rest |-> Remaining]
    /\ result' = Ok(m)
    /\ buf' = buf \o m.data
    /\ sent' = Append(sent, [data |-> m.data, built |-> TRUE, fn |-> fn])
    /\ UNCHANGED <<pos, reads, cause, got>>

NoteOn(note, velocity, ch) ==
    Built("note_on", <<note, velocity, ch>>, note_on(note, velocity, ch))
NoteOff(note, velocity, ch) ==
    Built("note_off", <<note, velocity, ch>>, note_off(note, velocity, ch))
PolyphonicAftertouch(note, pressure, ch) ==
    Built("polyphonic_aftertouch", <<note, pressure, ch>>,
          polyphonic_aftertouch(note, pressure, ch))
ControlChange(controler, d, ch) ==
    Built("control_change", <<controler, d, ch>>,
          control_change(controler, d, ch))
ProgramChange(program, ch) ==
    Built("program_change", <<program, ch>>, program_change(program, ch))
ChannelAftertouch(pressure, ch) ==
    Built("channel_aftertouch", <<pressure, ch>>,
          channel_aftertouch(pressure, ch))
PitchBend(lsb, msb, ch) ==
    Built("pitch_bend", <<lsb, msb, ch>>, pitch_bend(lsb, msb, ch))

\* MidiMessage::from_bytes(bytes)
FromBytes(bytes) ==
    /\ call' = [fn |-> "from_bytes", args |-> bytes, start |-> pos,
                reads0 |-> reads, rest |-> Remaining]
    /\ result' = Ok(from_bytes(bytes))
    /\ UNCHANGED <<buf, pos, reads, cause, sent, got>>

\* an external writer puts raw bytes on the stream
Feed(bytes) ==
    /\ call' = [fn |-> "feed", args |-> bytes, start |-> pos,
                reads0 |-> reads, rest |-> Remaining]
    /\ result' = [tag |-> "None"]
    /\ buf' = buf \o bytes
    /\ sent' = Append(sent, [data |-> bytes, built |-> FALSE, fn |-> "raw"])
    /\ UNCHANGED <<pos, reads, cause, got>>

\* the caller reads the status byte itself before calling
\* next_message_given_status
ReadStatus ==
    LET out == read_byte(TheReader)
    IN  /\ pos < Len(buf)
        /\ call' = [fn |-> "read_byte", args |-> <<>>, start |-> pos,
                    reads0 |-> reads, rest |-> Remaining]
        /\ result' = [tag |-> "Byte", byte |-> out.byte]
        /\ pos' = out.rd.pos
        /\ reads' = out.rd.reads
        /\ UNCHANGED <<buf, cause, sent, got>>

\* MidiMessage::next_message_given_status(stat, reader)
NextMessageGivenStatus(stat) ==
    LET out == next_message_given_status(stat, TheReader)
    IN  /\ reads - pos < MaxFail
        /\ call' = [fn |-> "next_message_given_status", args |-> <<stat>>,
                    n |-> data_bytes(stat), start |-> pos, reads0 |-> reads,
                    rest |-> Remaining]
        /\ result' = out.val
        /\ pos' = out.rd.pos
        /\ reads' = out.rd.reads
        /\ UNCHANGED <<buf, cause, sent, got>>

\* MidiMessage::next_message(reader)
NextMessage ==
    LET out == next_message(TheReader)
    IN  /\ reads - pos < MaxFail
        /\ call' = [fn |-> "next_message", args |-> <<>>, start |-> pos,
                    reads0 |-> reads, rest |-> Remaining]
        /\ result' = out.val
        /\ pos' = out.rd.pos
        /\ reads' = out.rd.reads
        /\ got' = Append(got, [start |-> pos, end |-> out.rd.pos,
                               avail |-> Len(buf), val |-> out.val])
        /\ UNCHANGED <<buf, cause, sent>>

(* --------------------------- specifications ----------------------------- *)
\* One message at a time: a builder's buffer, or raw bytes, are written to
\* a fresh stream; the caller then reads the status byte and decodes the
\* rest with next_message_given_status, or decodes with next_message.
Fresh == buf = <<>>
JustRead == call.fn = "read_byte"

\* sequences over S of length at most n
SeqsUpTo(S, n) == UNION {[1..k -> S] : k \in 0..n}
\* raw streams: any status byte followed by up to MaxRest bytes
RawStreams == {<<s>> \o r : s \in 0..255, r \in SeqsUpTo(RestVals, MaxRest)}

Next ==
    \/ Fresh /\ \E a, b \in DataVals, ch \in Channels :
          NoteOn(a, b, ch)
    \/ Fresh /\ \E a, b \in DataVals, ch \in Channels :
          NoteOff(a, b, ch)
    \/ Fresh /\ \E a, b \in DataVals, ch \in Channels :
          PolyphonicAftertouch(a, b, ch)
    \/ Fresh /\ \E a, b \in DataVals, ch \in Channels :
          ControlChange(a, b, ch)
    \/ Fresh /\ \E a \in DataVals, ch \in Channels :
          ProgramChange(a, ch)
    \/ Fresh /\ \E a \in DataVals, ch \in Channels :
          ChannelAftertouch(a, ch)
    \/ Fresh /\ \E a, b \in DataVals, ch \in Channels :
          PitchBend(a, b, ch)
    \/ Fresh /\ \E bytes \in SeqsUpTo(FromVals, MaxFromLen) :
          FromBytes(bytes)
    \/ Fresh /\ \E bytes \in RawStreams :
          Feed(bytes)
    \/ ReadStatus
    \/ JustRead /\ NextMessageGivenStatus(result.byte)
    \/ NextMessage

Spec == Init /\ [][Next]_vars

\* Streaming: builders and an external writer fill one stream while
\* next_message decodes it message by message.
Fits(n) == Len(buf) + n <= MaxBuf

NextStream ==
    \/ Fits(3) /\ \E a, b \in StreamData, ch \in StreamChannels :
          NoteOn(a, b, ch)
    \/ Fits(3) /\ \E a, b \in StreamData, ch \in StreamChannels :
          NoteOff(a, b, ch)
    \/ Fits(3) /\ \E a, b \in StreamData, ch \in StreamChannels :
          PolyphonicAftertouch(a, b, ch)
    \/ Fits(3) /\ \E a, b \in StreamData, ch \in StreamChannels :
          ControlChange(a, b, ch)
    \/ Fits(2) /\ \E a \in StreamData, ch \in StreamChannels :
          ProgramChange(a, ch)
    \/ Fits(2) /\ \E a \in StreamData, ch \in StreamChannels :
          ChannelAftertouch(a, ch)
    \/ Fits(3) /\ \E a, b \in StreamData, ch \in StreamChannels :
          PitchBend(a, b, ch)
    \/ Fits(1) /\ \E b \in StreamRaw :
          Feed(<<b>>)
    \/ NextMessage

SpecStream == Init /\ [][NextStream]_vars

(* ------------------------------ properties ------------------------------ *)
Builders ==
    [ note_on |-> 144, note_off |-> 128, polyphonic_aftertouch |-> 160,
      control_change |-> 176, program_change |-> 192,
      channel_aftertouch |-> 208, pitch_bend |-> 224 ]
OneDataBuilders == {"program_change", "channel_aftertouch"}
IsBuilderCall == call.fn \in DOMAIN Builders
IsGivenStatusCall == call.fn = "next_message_given_status"
IsNextMessageCall == call.fn = "next_message"
NoRead == pos = call.start /\ reads = call.reads0

\* the table of data-byte counts by status kind: voice kinds by high nibble,
\* system kinds by their exact byte, -2 for SysExStart, -3 for the rest
TableOutcome(b) ==
    CASE b \in 128..191 \/ b \in 224..239 -> 2
      [] b \in 192..223 -> 1
      [] b = 242 -> 2
      [] b \in {241, 243} -> 1
      [] b \in {246, 247, 248, 250, 251, 252, 254, 255} -> 0
      [] b = 240 -> -2
      [] OTHER -> -3

\* C1: a builder's bytes, status byte handed to next_message_given_status
\* and the rest left on the byte source, decode to Ok with the same status,
\* channel and data values, i.e. the same bytes.
IsRoundTripCall ==
    /\ IsGivenStatusCall
    /\ Len(sent) = 1
    /\ sent[1].built
    /\ call.start = 1
RoundTrip ==
    IsRoundTripCall =>
        LET orig == [data |-> sent[1].data]
        IN  /\ call.args = <<orig.data[1]>>
            /\ result.tag = "Ok"
            /\ Len(result.data) = Len(orig.data)
            /\ status(result) = status(orig)
            /\ status(result) # "panic"
            /\ channel(result) = channel(orig)
            /\ data(result, 1) = data(orig, 1)
            /\ (sent[1].fn \notin OneDataBuilders =>
                    data(result, 2) = data(orig, 2))
            /\ result.data = orig.data
RoundTripWitness ==
    /\ IsRoundTripCall
    /\ sent[1].fn = "pitch_bend"
    /\ result.tag = "Ok"
    /\ result.data = <<239, 0, 127>>

\* C2: data_bytes(b) is the table's outcome for every status byte b.
DataBytesMatchesTable ==
    IsGivenStatusCall => call.n = TableOutcome(call.args[1])

\* C3: a builder returns [tag | channel, data arguments in order], of
\* length 3 for two-data kinds and 2 for program_change and
\* channel_aftertouch; note_on(60,100,0) = [0x90,60,100] and
\* program_change(5,9) = [0xC9,5].
BuilderBytes ==
    IsBuilderCall =>
        LET n  == Len(call.args)
            ch == call.args[n]
        IN  /\ result.tag = "Ok"
            /\ n = (IF call.fn \in OneDataBuilders THEN 2 ELSE 3)
            /\ Len(result.data) = n
            /\ result.data[1] = Builders[call.fn] + ch
            /\ \A i \in 1..(n - 1) : result.data[i + 1] = call.args[i]
            /\ (call.fn = "note_on" /\ call.args = <<60, 100, 0>> =>
                    result.data = <<144, 60, 100>>)
            /\ (call.fn = "program_change" /\ call.args = <<5, 9>> =>
                    result.data = <<201, 5>>)
BuilderBytesWitness ==
    /\ call.fn = "program_change"
    /\ call.args = <<5, 9>>
    /\ result.data = <<201, 5>>

\* C4: next_message_given_status on a byte below 0x80 or on one of the
\* reserved bytes 0xF4, 0xF5, 0xF9, 0xFD returns InvalidStatus(byte) and
\* reads nothing.
IsReservedStatus(b) == b < 128 \/ b \in {244, 245, 249, 253}
ReservedStatusInvalid ==
    IsGivenStatusCall /\ IsReservedStatus(call.args[1]) =>
        /\ result = [tag |-> "InvalidStatus", byte |-> call.args[1]]
        /\ NoRead

\* C5: for a status byte whose kind takes N in {1,2} data bytes, a source
\* that fails before N bytes makes next_message_given_status return
\* IoError with the source's error, never Ok, and no read follows the
\* failing one.
TruncatedIsIoError ==
    /\ IsGivenStatusCall
    /\ TableOutcome(call.args[1]) \in {1, 2}
    /\ Len(call.rest) < TableOutcome(call.args[1])
    => /\ result = [tag |-> "IoError", err |-> cause]
       /\ pos = call.start + Len(call.rest)
       /\ reads = call.reads0 + Len(call.rest) + 1

\* for the voice statuses 0x80..0xEF a truncated source gives IoError
TruncatedVoiceIsIoError ==
    /\ IsGivenStatusCall
    /\ call.args[1] \in 128..239
    /\ Len(call.rest) < TableOutcome(call.args[1])
    => /\ result = [tag |-> "IoError", err |-> cause]
       /\ pos = call.start + Len(call.rest)
       /\ reads = call.reads0 + Len(call.rest) + 1

\* C6: next_message_given_status(0xF0) returns OtherErr and reads nothing,
\* whatever the source holds.
SysExRejected ==
    IsGivenStatusCall /\ call.args[1] = 240 =>
        result.tag = "OtherErr" /\ NoRead
SysExRejectedWitness ==
    /\ IsGivenStatusCall
    /\ call.args[1] = 240
    /\ call.rest = <<247>>
    /\ result.tag = "OtherErr"

\* C7: every message the builders, from_bytes and the decoders return is
\* non-empty, has a status() that does not panic and has length
\* 1 + data_bytes(byte 0) with data_bytes in {0,1,2}.
MessageInvariant ==
    result.tag = "Ok" =>
        /\ Len(result.data) >= 1
        /\ status(result) # "panic"
        /\ data_bytes(result.data[1]) \in {0, 1, 2}
        /\ Len(result.data) = 1 + data_bytes(result.data[1])

\* the messages of the builders and of the decoders satisfy it
DecodedAndBuiltInvariant ==
    call.fn # "from_bytes" => MessageInvariant

FreshReader(bytes) == Reader(bytes, 0, 0, cause)
EntryPointsAgree ==
    /\ IsGivenStatusCall =>
           LET other == next_message(FreshReader(call.args \o call.rest))
           IN  /\ other.val = result
               /\ other.rd.pos = 1 + (pos - call.start)
               /\ other.rd.reads = 1 + (reads - call.reads0)
    /\ IsNextMessageCall /\ call.rest # <<>> =>
           LET other == next_message_given_status(
                            Head(call.rest), FreshReader(Tail(call.rest)))
           IN  /\ other.val = result
               /\ 1 + other.rd.pos = pos - call.start
               /\ 1 + other.rd.reads = reads - call.reads0
    /\ IsNextMessageCall /\ call.rest = <<>> =>
           /\ result = [tag |-> "IoError", err |-> cause]
           /\ pos = call.start
           /\ reads = call.reads0 + 1
EntryPointsAgreeWitness ==
    /\ IsNextMessageCall
    /\ call.rest = <<145, 60, 247>>
    /\ result.tag = "Ok"
    /\ result.data = <<145, 60, 247>>

\* C10: next_message called repeatedly on the concatenation of builder-made
\* messages returns them byte for byte and in order, the k-th call starting
\* at the first byte of the k-th message and consuming 1 + N bytes; after
\* successful decodes a byte below 0x80 in status position yields
\* InvalidStatus.
RECURSIVE BytesBefore(_)
BytesBefore(k) == IF k <= 1 THEN 0 ELSE BytesBefore(k - 1) + Len(sent[k - 1].data)
DataCount(fn) == IF fn \in OneDataBuilders THEN 1 ELSE 2
\* the k-th call found the k-th item on the stream, and the calls before
\* it decoded the builder-made items before it
DecodedSoFar(k) ==
    /\ k <= Len(sent)
    /\ BytesBefore(k + 1) <= got[k].avail
    /\ \A j \in 1..(k - 1) : sent[j].built /\ got[j].val.tag = "Ok"
StreamInOrder ==
    \A k \in 1..Len(got) :
        DecodedSoFar(k) =>
            /\ got[k].start = BytesBefore(k)
            /\ sent[k].built =>
                   /\ got[k].val = [tag |-> "Ok", data |-> sent[k].data]
                   /\ got[k].end = got[k].start + 1 + DataCount(sent[k].fn)
            /\ ~sent[k].built /\ sent[k].data[1] < 128 =>
                   /\ got[k].val = [tag |-> "InvalidStatus",
                                     byte |-> sent[k].data[1]]
                   /\ got[k].end = got[k].start + 1
StreamInOrderWitness ==
    /\ Len(got) = 2
    /\ Len(sent) = 2
    /\ sent[1].fn = "program_change"
    /\ sent[2].fn = "note_on"
    /\ got[1].val = [tag |-> "Ok", data |-> sent[1].data]
    /\ got[2].val = [tag |-> "Ok", data |-> sent[2].data]
    /\ got[2].start = 2
    /\ got[2].end = 5

====
